---- MODULE Spec2Model ----
(***************************************************************************)
(* A model of scvi.models.scanvi.SCANVI: construction (pretrained-model    *)
(* check, label mapping, labeled/unlabeled partition), the two-phase       *)
(* train() with its epoch heuristic and weight transplant, and predict().  *)
(*                                                                         *)
(* Observation indices are 1-based here (the code's are 0-based).  The     *)
(* neural networks, the trainers and the posterior are external: a model's *)
(* parameters are a function  name -> [shape, val]  whose values are tags   *)
(* telling where the value comes from; a trainer may raise at any call.    *)
(* A call's outcome (what it returned or raised, the steps it began) stays  *)
(* in the state until the caller takes it (Return); then the next call can  *)
(* be made.                                                                *)
(***************************************************************************)
EXTENDS Integers, Sequences, FiniteSets, TLC

\* ------------------------------------------------------------------ bounds
NObs == 2
MaxOverride == 0
MaxSmallObs == 6
MaxSchedOverride == 12

\* ------------------------------------------------------- program constants
None == -1
RefObs == 20000
EpochCap == 400
SemiMin == 2
SemiMax == 10
SemiDiv == 3
n_hidden == 128

Obs == 1 .. NObs
Labels == {"A", "B", "U"}
Sentinels == {"U", "Z"}
Overrides == {None} \cup (0 .. MaxOverride)

VARIABLES
    pc,                      \* position: "new", "rejected", "idle", or a place inside train()
    last_op,                 \* the call whose outcome the caller has yet to take, or "none"
    raised,                  \* the exception that call raised, "" when it returned
    pretrained,              \* the pretrained_model argument of the constructor
    labels,                  \* adata.obs[original_key]
    unlabeled_category,
    label_mapping,           \* self._label_mapping
    code_to_label,           \* self._code_to_label
    unlabeled_indices,
    labeled_indices,
    is_trained_base,         \* self._is_trained_base
    is_trained,              \* self.is_trained
    base_model,              \* parameters of self._base_model
    model,                   \* parameters of self.model
    unsupervised_trainer,    \* self._unsupervised_trainer
    trainer,                 \* self.trainer
    n_epochs_unsupervised,   \* the epoch counts of that call, when it is a train()
    n_epochs_semisupervised,
    steps,                   \* the steps that call began, when it is a train()
    entry,                   \* _is_trained_base and both models' parameters when it began
    result,                  \* what that call returned, when it is a predict()
    sched                    \* a standalone evaluation of the epoch heuristic

vars == <<pc, last_op, raised, pretrained, labels, unlabeled_category, label_mapping,
          code_to_label, unlabeled_indices, labeled_indices, is_trained_base, is_trained,
          base_model, model, unsupervised_trainer, trainer, n_epochs_unsupervised,
          n_epochs_semisupervised, steps, entry, result, sched>>

instance_vars == <<pretrained, labels, unlabeled_category, label_mapping, code_to_label,
                   unlabeled_indices, labeled_indices>>

\* ---------------------------------------------------------------- helpers
Min(a, b) == IF a <= b THEN a ELSE b

Max(a, b) == IF a >= b THEN a ELSE b

\* Python 3 round() of the rational p / q (q > 0): to nearest, ties to even.
Round(p, q) ==
    LET f == p \div q
        r == p % q
    IN  IF 2 * r < q THEN f
        ELSE IF 2 * r > q THEN f + 1
        ELSE f + (f % 2)

\* ------------------------------------------------------ epoch heuristic
ScheduleRaises(n_obs, override) == override = None /\ n_obs = 0

UnsupervisedEpochs_NoCap(n_obs, override) ==
    IF override # None THEN override
    ELSE Round(RefObs * EpochCap, n_obs)

UnsupervisedEpochs(n_obs, override) ==
    IF override # None THEN override
    ELSE Min(Round(RefObs * EpochCap, n_obs), EpochCap)

SemisupervisedEpochs(n_unsup, override) ==
    IF override # None THEN override
    ELSE Min(SemiMax, Max(SemiMin, Round(n_unsup, SemiDiv)))

\* ------------------------------------------------------------- models
Param(s, v) == [shape |-> s, val |-> v]

FreshVAE == [k \in {"z_encoder", "decoder"} |-> Param(n_hidden, "vae_init")]

FreshSCANVAE ==
    [k \in {"z_encoder", "decoder", "classifier"} |-> Param(n_hidden, "scanvae_init")]

\* The SCVI models a caller may pass: none, or one that is trained or not, of the
\* same architecture, one layer deeper (a key SCANVAE has not) or twice as wide
\* (the same keys with other shapes).
PretrainedSame ==
    [k \in {"z_encoder", "decoder"} |-> Param(n_hidden, "pretrained")]

PretrainedDeeper ==
    [k \in {"z_encoder", "z_encoder_1", "decoder"} |-> Param(n_hidden, "pretrained")]

PretrainedWider ==
    [k \in {"z_encoder", "decoder"} |->
        IF k = "decoder" THEN Param(2 * n_hidden, "pretrained")
        ELSE Param(n_hidden, "pretrained")]

NoPretrained == [given |-> FALSE, is_trained |-> FALSE, model |-> FreshVAE]

PretrainedModels ==
    {NoPretrained} \cup
    [given : {TRUE}, is_trained : BOOLEAN,
     model : {PretrainedSame, PretrainedDeeper, PretrainedWider}]

\* ----------------------------------------------------- label indexer
\* The categories the dataset registry found in a label column; their order is
\* the registry's, so every order is an input.
Categories(col) == {col[i] : i \in DOMAIN col}

Mappings(col) ==
    {m \in [1 .. Cardinality(Categories(col)) -> Categories(col)] :
        \A i, j \in DOMAIN m : i # j => m[i] # m[j]}

CodeToLabel_FromOne(mapping) == [c \in 1 .. Len(mapping) |-> mapping[c]]

\* {i: l for i, l in enumerate(self._label_mapping)}
CodeToLabel(mapping) == [c \in 0 .. (Len(mapping) - 1) |-> mapping[c + 1]]

\* np.argwhere(mask).ravel(): the positions where mask holds, ascending.
ArgWhere(mask) ==
    LET holds(i) == mask[i]
    IN  SelectSeq([i \in DOMAIN mask |-> i], holds)

LabeledIndices_All(col, sentinel) == [i \in DOMAIN col |-> i]

UnlabeledIndices(col, sentinel) == ArgWhere([i \in DOMAIN col |-> col[i] = sentinel])

LabeledIndices(col, sentinel) == ArgWhere([i \in DOMAIN col |-> col[i] # sentinel])

\* ------------------------------------------------------------ trainers
NoTrainer == [kind |-> "none", status |-> "none", n_epochs |-> None,
              unlabelled_set |-> <<>>, labelled_set |-> <<>>]

NewTrainer(kind) == [NoTrainer EXCEPT !.kind = kind, !.status = "built"]

NoResult == [soft |-> FALSE, query |-> <<>>, pred |-> <<>>, labels |-> <<>>,
             rows |-> <<>>, index |-> <<>>, columns |-> <<>>]

NoSched == [n_obs |-> 1, ov_u |-> None, ov_s |-> None, out_u |-> None, out_s |-> None,
            raised |-> "", done |-> FALSE]

NoEntry == [is_trained_base |-> FALSE, base_model |-> FreshVAE, model |-> FreshSCANVAE]

\* -------------------------------------------------------------- Init
InitInstance ==
    /\ pc = "new"
    /\ last_op = "none"
    /\ raised = ""
    /\ pretrained = NoPretrained
    /\ labels = <<>>
    /\ unlabeled_category = "U"
    /\ label_mapping = <<>>
    /\ code_to_label = CodeToLabel(<<>>)
    /\ unlabeled_indices = <<>>
    /\ labeled_indices = <<>>
    /\ is_trained_base = FALSE
    /\ is_trained = FALSE
    /\ base_model = FreshVAE
    /\ model = FreshSCANVAE
    /\ unsupervised_trainer = NoTrainer
    /\ trainer = NoTrainer
    /\ n_epochs_unsupervised = None
    /\ n_epochs_semisupervised = None
    /\ steps = <<>>
    /\ entry = NoEntry
    /\ result = NoResult

Init == InitInstance /\ sched = NoSched

\* --------------------------------------------------------- __init__
\* if pretrained_model is not None: if pretrained_model.is_trained is False: raise
PretrainedRejected_Never(p) == FALSE

PretrainedRejected(p) == p.given /\ p.is_trained = FALSE

Construct ==
    /\ pc = "new"
    /\ \E col \in [Obs -> Labels], sentinel \in Sentinels, p \in PretrainedModels :
        \E mapping \in Mappings(col) :
            /\ last_op' = "construct"
            /\ pretrained' = p
            /\ IF PretrainedRejected(p)
               THEN /\ pc' = "rejected"
                    /\ raised' = "ValueError"
                    /\ UNCHANGED <<labels, unlabeled_category, label_mapping, code_to_label,
                                   unlabeled_indices, labeled_indices, is_trained_base,
                                   base_model, model>>
               ELSE /\ pc' = "idle"
                    /\ raised' = ""
                    /\ unlabeled_category' = sentinel
                    /\ base_model' = IF p.given THEN p.model ELSE FreshVAE
                    /\ is_trained_base' = p.given
                    /\ model' = FreshSCANVAE
                    /\ label_mapping' = mapping
                    /\ labels' = col
                    /\ code_to_label' = CodeToLabel(mapping)
                    /\ unlabeled_indices' = UnlabeledIndices(col, sentinel)
                    /\ labeled_indices' = LabeledIndices(col, sentinel)
    /\ UNCHANGED <<is_trained, unsupervised_trainer, trainer, n_epochs_unsupervised,
                   n_epochs_semisupervised, steps, entry, result, sched>>

\* ------------------------------------------------------------ train()
\* train() is left: by its last line (e = "") or by the exception e, which nothing
\* in train() catches.
Leave(e) ==
    /\ pc' = "idle"
    /\ raised' = e

\* What trainer.train(n_epochs) leaves in the parameters it optimises.
TrainValues(params, n_epochs, tag) ==
    IF n_epochs = 0 THEN params
    ELSE [k \in DOMAIN params |-> Param(params[k].shape, tag)]

\* if self._is_trained_base is not True:
NeedsPhase1_Always(flag) == TRUE

NeedsPhase1_NoTrainerYet(flag) == flag # TRUE /\ unsupervised_trainer = NoTrainer

NeedsPhase1(flag) == flag # TRUE

\* train() assigns self.is_trained on its last line only.
IsTrainedOnEntry_Reset == FALSE

IsTrainedOnEntry == is_trained

TrainBegin ==
    /\ pc = "idle" /\ last_op = "none"
    /\ \E u \in Overrides, s \in Overrides :
        /\ last_op' = "train"
        /\ steps' = <<>>
        /\ entry' = [is_trained_base |-> is_trained_base, base_model |-> base_model,
                   model |-> model]
        /\ is_trained' = IsTrainedOnEntry
        /\ IF ScheduleRaises(Len(labels), u)
           THEN /\ Leave("ZeroDivisionError")
                /\ UNCHANGED <<n_epochs_unsupervised, n_epochs_semisupervised>>
           ELSE /\ raised' = ""
                /\ n_epochs_unsupervised' = UnsupervisedEpochs(Len(labels), u)
                /\ n_epochs_semisupervised' =
                       SemisupervisedEpochs(UnsupervisedEpochs(Len(labels), u), s)
                /\ pc' = IF NeedsPhase1(is_trained_base) THEN "unsup_construct"
                         ELSE "transplant"
    /\ UNCHANGED <<instance_vars, is_trained_base, base_model, model,
                   unsupervised_trainer, trainer, result, sched>>

\* self._unsupervised_trainer = UnsupervisedTrainer(self._base_model, self.adata, ...)
ConstructUnsupervisedTrainer ==
    /\ pc = "unsup_construct"
    /\ steps' = Append(steps, "unsup_construct")
    /\ \E ok \in BOOLEAN :
        IF ok
        THEN /\ unsupervised_trainer' = NewTrainer("unsupervised")
             /\ pc' = "unsup_train"
             /\ UNCHANGED <<raised, n_epochs_unsupervised, n_epochs_semisupervised>>
        ELSE /\ Leave("TrainerError")
             /\ UNCHANGED <<unsupervised_trainer, n_epochs_unsupervised,
                            n_epochs_semisupervised>>
    /\ UNCHANGED <<instance_vars, last_op, is_trained_base, is_trained, base_model, model,
                   trainer, entry, result, sched>>

\* self._unsupervised_trainer.train(n_epochs=n_epochs_unsupervised, ...)
\* self._is_trained_base = True
RunUnsupervisedTrainer ==
    /\ pc = "unsup_train"
    /\ steps' = Append(steps, "unsup_train")
    /\ \E outcome \in {"ok", "raise", "raise_mid"} :
        IF outcome = "ok"
        THEN /\ unsupervised_trainer' =
                    [unsupervised_trainer EXCEPT !.n_epochs = n_epochs_unsupervised,
                                                 !.status = "trained"]
             /\ base_model' = TrainValues(base_model, n_epochs_unsupervised, "unsup_trained")
             /\ is_trained_base' = TRUE
             /\ pc' = "transplant"
             /\ UNCHANGED <<raised, n_epochs_unsupervised, n_epochs_semisupervised>>
        ELSE /\ unsupervised_trainer' =
                    [unsupervised_trainer EXCEPT !.n_epochs = n_epochs_unsupervised,
                                                 !.status = "failed"]
             /\ base_model' = IF outcome = "raise" THEN base_model
                              ELSE TrainValues(base_model, n_epochs_unsupervised,
                                               "unsup_partial")
             /\ Leave("TrainerError")
             /\ UNCHANGED <<is_trained_base, n_epochs_unsupervised,
                            n_epochs_semisupervised>>
    /\ UNCHANGED <<instance_vars, last_op, is_trained, model, trainer, entry, result, sched>>

\* torch's Module.load_state_dict(source, strict): a parameter of the same name and
\* shape is copied; one of the same name and another shape is an error whatever
\* strict is; missing and unexpected keys are errors under strict only.  The copies
\* are made before the error is raised.
LoadStateDict(target, source, strict) ==
    LET common     == DOMAIN target \cap DOMAIN source
        mismatched == {k \in common : target[k].shape # source[k].shape}
        missing    == DOMAIN target \ DOMAIN source
        unexpected == DOMAIN source \ DOMAIN target
    IN  [state |-> [k \in DOMAIN target |->
                       IF k \in common \ mismatched
                       THEN Param(target[k].shape, source[k].val)
                       ELSE target[k]],
         error |-> \/ mismatched # {}
                   \/ strict /\ (missing \cup unexpected) # {}]

Strict_True == TRUE

Strict == FALSE

\* self.model.load_state_dict(self._base_model.state_dict(), strict=False)
Transplant ==
    /\ pc = "transplant"
    /\ steps' = Append(steps, "transplant")
    /\ LET r == LoadStateDict(model, base_model, Strict)
       IN  /\ model' = r.state
           /\ IF r.error
              THEN /\ Leave("RuntimeError")
                   /\ UNCHANGED <<n_epochs_unsupervised, n_epochs_semisupervised>>
              ELSE /\ pc' = "semi_construct"
                   /\ UNCHANGED <<raised, n_epochs_unsupervised, n_epochs_semisupervised>>
    /\ UNCHANGED <<instance_vars, last_op, is_trained_base, is_trained, base_model,
                   unsupervised_trainer, trainer, entry, result, sched>>

\* self.trainer = SemiSupervisedTrainer(self.model, self.adata, use_cuda=self.use_cuda)
ConstructSemiSupervisedTrainer ==
    /\ pc = "semi_construct"
    /\ steps' = Append(steps, "semi_construct")
    /\ \E ok \in BOOLEAN :
        IF ok
        THEN /\ trainer' = NewTrainer("semisupervised")
             /\ pc' = "views"
             /\ UNCHANGED <<raised, n_epochs_unsupervised, n_epochs_semisupervised>>
        ELSE /\ Leave("TrainerError")
             /\ UNCHANGED <<trainer, n_epochs_unsupervised, n_epochs_semisupervised>>
    /\ UNCHANGED <<instance_vars, last_op, is_trained_base, is_trained, base_model, model,
                   unsupervised_trainer, entry, result, sched>>

\* self.trainer.unlabelled_set = self.trainer.create_posterior(indices=self._unlabeled_indices)
\* self.trainer.labelled_set = self.trainer.create_posterior(indices=self._labeled_indices)
CreateViews ==
    /\ pc = "views"
    /\ steps' = Append(steps, "views")
    /\ trainer' = [trainer EXCEPT !.unlabelled_set = unlabeled_indices,
                                  !.labelled_set = labeled_indices,
                                  !.status = "views"]
    /\ pc' = "semi_train"
    /\ UNCHANGED <<instance_vars, last_op, raised, is_trained_base, is_trained, base_model,
                   model, unsupervised_trainer, n_epochs_unsupervised,
                   n_epochs_semisupervised, entry, result, sched>>

\* self.trainer.train(n_epochs=n_epochs_semisupervised)
\* self.is_trained = True
RunSemiSupervisedTrainer ==
    /\ pc = "semi_train"
    /\ steps' = Append(steps, "semi_train")
    /\ \E outcome \in {"ok", "raise", "raise_mid"} :
        /\ trainer' = [trainer EXCEPT !.n_epochs = n_epochs_semisupervised,
                                      !.status = IF outcome = "ok" THEN "trained"
                                                 ELSE "failed"]
        /\ model' = IF outcome = "ok"
                    THEN TrainValues(model, n_epochs_semisupervised, "ssl_trained")
                    ELSE IF outcome = "raise" THEN model
                    ELSE TrainValues(model, n_epochs_semisupervised, "ssl_partial")
        /\ is_trained' = IF outcome = "ok" THEN TRUE ELSE is_trained
        /\ Leave(IF outcome = "ok" THEN "" ELSE "TrainerError")
    /\ UNCHANGED <<instance_vars, last_op, is_trained_base, base_model,
                   unsupervised_trainer, n_epochs_unsupervised,
                   n_epochs_semisupervised, entry, result, sched>>

Train ==
    \/ TrainBegin
    \/ ConstructUnsupervisedTrainer
    \/ RunUnsupervisedTrainer
    \/ Transplant
    \/ ConstructSemiSupervisedTrainer
    \/ CreateViews
    \/ RunSemiSupervisedTrainer

\* ----------------------------------------------------------- predict()
\* The indices argument: None, or the positions of some observations in any order.
NoIndices == <<0>>

Queries ==
    {NoIndices} \cup
    {q \in UNION {[1 .. k -> Obs] : k \in 1 .. NObs} :
        \A i, j \in DOMAIN q : i # j => q[i] # q[j]}

\* adata.obs_names: observation i is named i.
ObsNames == [i \in DOMAIN labels |-> i]

\* self._make_posterior(adata=adata, indices=indices): every observation when
\* indices is None.
ResolveIndices(indices) == IF indices = NoIndices THEN ObsNames ELSE indices

\* What the classifier emits for each observation: a code in 0 .. n_labels, where
\* n_labels itself is a code no label has.
Outputs(n_labels) == {[o \in Obs |-> (o + s) % (n_labels + 1)] : s \in 0 .. n_labels}

\* The probability row emitted with code c: all on c, or a row that does not sum
\* to 1 when c is no label's code.
ProbRow(c, n_labels) ==
    [k \in 1 .. n_labels |-> IF c = n_labels \/ k = c + 1 THEN 1 ELSE 0]

\* post.sequential().compute_predictions(soft=soft): one entry per queried
\* observation, in the order of the query.
ComputePredictions(out, query, soft, n_labels) ==
    [j \in DOMAIN query |->
        IF soft THEN ProbRow(out[query[j]], n_labels) ELSE out[query[j]]]

\* for p in pred: predictions.append(self._code_to_label[p])
HardRaises(pred) == \E j \in DOMAIN pred : pred[j] \notin DOMAIN code_to_label

HardLabels(pred) == [j \in DOMAIN pred |-> code_to_label[pred[j]]]

\* pd.DataFrame(data, columns=columns, index=index) raises unless data has one row
\* per index entry and one column per column name.
DataFrameRaises(data, columns, index) ==
    \/ Len(data) # Len(index)
    \/ \E j \in DOMAIN data : Len(data[j]) # Len(columns)

\* index=adata.obs_names
SoftIndex(query) == ObsNames

Predict ==
    /\ pc = "idle" /\ last_op = "none"
    /\ \E indices \in Queries, soft \in BOOLEAN, out \in Outputs(Len(label_mapping)) :
        LET query == ResolveIndices(indices)
            pred  == ComputePredictions(out, query, soft, Len(label_mapping))
            call  == [NoResult EXCEPT !.soft = soft, !.query = query, !.pred = pred]
        IN  IF ~soft
            THEN IF HardRaises(pred)
                 THEN /\ raised' = "KeyError"
                      /\ result' = call
                 ELSE /\ raised' = ""
                      /\ result' = [call EXCEPT !.labels = HardLabels(pred)]
            ELSE IF DataFrameRaises(pred, label_mapping, SoftIndex(query))
                 THEN /\ raised' = "ValueError"
                      /\ result' = call
                 ELSE /\ raised' = ""
                      /\ result' = [call EXCEPT !.rows = pred,
                                                !.columns = label_mapping,
                                                !.index = SoftIndex(query)]
    /\ last_op' = "predict"
    /\ UNCHANGED <<pc, instance_vars, is_trained_base, is_trained, base_model, model,
                   unsupervised_trainer, trainer, n_epochs_unsupervised,
                   n_epochs_semisupervised, steps, entry, sched>>

\* The caller takes what the call returned or raised; the instance keeps its fields
\* and can be called again.
Return ==
    /\ pc = "idle" /\ last_op # "none"
    /\ last_op' = "none"
    /\ raised' = ""
    /\ steps' = <<>>
    /\ entry' = NoEntry
    /\ result' = NoResult
    /\ n_epochs_unsupervised' = None
    /\ n_epochs_semisupervised' = None
    /\ UNCHANGED <<pc, instance_vars, is_trained_base, is_trained, base_model, model,
                   unsupervised_trainer, trainer, sched>>

\* ------------------------------------------- the epoch heuristic, standalone
SchedObs ==
    (0 .. MaxSmallObs) \cup
    {19999, 20000, 20001, 25000, 100000, 128000, 888889, 3200000, 16000000, 16000001, 20000000}

SchedOverrides == {None} \cup (0 .. MaxSchedOverride) \cup {27, 31, 400, 1000}

InitSchedule ==
    /\ InitInstance
    /\ \E n \in SchedObs, u \in SchedOverrides, s \in SchedOverrides :
        sched = [NoSched EXCEPT !.n_obs = n, !.ov_u = u, !.ov_s = s]

\* lines 168-175 of train(), for a dataset of sched.n_obs observations
ScheduleEval ==
    /\ ~sched.done
    /\ sched' =
        IF ScheduleRaises(sched.n_obs, sched.ov_u)
        THEN [sched EXCEPT !.raised = "ZeroDivisionError", !.done = TRUE]
        ELSE [sched EXCEPT
                !.out_u = UnsupervisedEpochs(sched.n_obs, sched.ov_u),
                !.out_s = SemisupervisedEpochs(
                              UnsupervisedEpochs(sched.n_obs, sched.ov_u), sched.ov_s),
                !.done = TRUE]
    /\ UNCHANGED <<pc, last_op, raised, instance_vars, is_trained_base, is_trained,
                   base_model, model, unsupervised_trainer, trainer,
                   n_epochs_unsupervised, n_epochs_semisupervised, steps, entry, result>>

\* ---------------------------------------------------------- specifications
Next == Construct \/ Train \/ Predict \/ Return

Spec == Init /\ [][Next]_vars

NextTrain == Construct \/ Train \/ Return

SpecTrain == Init /\ [][NextTrain]_vars

NextPredict == Construct \/ Predict \/ Return

SpecPredict == Init /\ [][NextPredict]_vars

SpecSchedule == InitSchedule /\ [][ScheduleEval]_vars

TypeOK == pc \in {"new", "rejected", "idle", "unsup_construct", "unsup_train", "transplant",
                  "semi_construct", "views", "semi_train"}

\* ------------------------------------------------------------ properties
IsPrefix(s, t) == Len(s) <= Len(t) /\ \A i \in DOMAIN s : s[i] = t[i]

Elems(s) == {s[i] : i \in DOMAIN s}

Phase1Steps == <<"unsup_construct", "unsup_train">>

Phase2Steps == <<"transplant", "semi_construct", "views", "semi_train">>

Constructed == pc \notin {"new", "rejected"}

\* C1: a train() call that begins with the base model marked trained (an earlier
\* call completed phase 1, or a trained pretrained model was given) begins no
\* phase-1 step and leaves the base parameters as they were, and still does the
\* transplant and phase 2: when it returns normally it has done exactly the
\* transplant, the semi-supervised trainer's construction, the two views over the
\* partition and the semi-supervised training for the call's semi-supervised
\* epoch count, and is_trained is set.
C1_TrainedBaseSkipsPhase1 ==
    (last_op = "train" /\ entry.is_trained_base) =>
        /\ pc \notin {"unsup_construct", "unsup_train"}
        /\ Elems(steps) \cap Elems(Phase1Steps) = {}
        /\ base_model = entry.base_model
        /\ IsPrefix(steps, Phase2Steps)
        /\ (pc = "idle" /\ raised = "") =>
              /\ steps = Phase2Steps
              /\ trainer.status = "trained"
              /\ trainer.n_epochs = n_epochs_semisupervised
              /\ n_epochs_semisupervised >= 0
              /\ trainer.unlabelled_set = unlabeled_indices
              /\ trainer.labelled_set = labeled_indices
              /\ is_trained

\* A second train() call has returned normally on an instance built without a
\* pretrained model.
C1_Witness ==
    /\ last_op = "train" /\ pc = "idle" /\ raised = ""
    /\ entry.is_trained_base /\ ~pretrained.given
    /\ steps = Phase2Steps

\* C2: a constructor given a pretrained model whose trained flag is false raises,
\* and leaves no instance: no flag is set, no trainer exists, no training step ran.
C2_UntrainedPretrainedRejected ==
    (pretrained.given /\ ~pretrained.is_trained) =>
        /\ pc = "rejected"
        /\ raised = "ValueError"
        /\ ~is_trained_base /\ ~is_trained
        /\ unsupervised_trainer = NoTrainer /\ trainer = NoTrainer
        /\ steps = <<>>

C2_Witness ==
    pc = "rejected" /\ pretrained.given /\ ~pretrained.is_trained /\ raised = "ValueError"

\* C3: no step of construction, train() (returning or raising) or predict() takes
\* _is_trained_base or is_trained from true to false.
C3_FlagsMonotonic ==
    [][(is_trained_base => is_trained_base') /\ (is_trained => is_trained')]_vars

\* A train() call raised on an instance that was fully trained, and predict() ran.
C3_Witness ==
    /\ is_trained /\ is_trained_base
    /\ last_op = "predict"
    /\ trainer.status = "failed"

\* C4: on every instance, after construction and after any train() and predict()
\* calls, the labeled and unlabeled indices are duplicate-free, disjoint, cover
\* every observation, and i is unlabeled exactly when labels[i] is the sentinel
\* (so none is when the sentinel does not occur); the views train() makes are
\* over these same indices.
C4_Partition ==
    Constructed =>
        /\ Elems(unlabeled_indices) \cup Elems(labeled_indices) = DOMAIN labels
        /\ Elems(unlabeled_indices) \cap Elems(labeled_indices) = {}
        /\ Len(unlabeled_indices) + Len(labeled_indices) = Len(labels)
        /\ \A i \in DOMAIN labels :
              i \in Elems(unlabeled_indices) <=> labels[i] = unlabeled_category
        /\ (unlabeled_category \notin Elems(labels)) => unlabeled_indices = <<>>
        /\ trainer.status \in {"views", "trained", "failed"} =>
              /\ trainer.unlabelled_set = unlabeled_indices
              /\ trainer.labelled_set = labeled_indices

\* The sentinel occurs nowhere, the instance is trained and predict() has run.
C4_Witness ==
    /\ Constructed /\ is_trained /\ last_op = "predict"
    /\ unlabeled_category \notin Elems(labels)
    /\ unlabeled_indices = <<>>
    /\ Len(labeled_indices) = Len(labels)

\* C5: once train() has done the transplant, every parameter of the semi-supervised
\* model that the base model has under the same name with the same shape has the
\* base model's value, every other one has the value it had before; and the
\* transplant raises only when a parameter of the same name has another shape,
\* never for a key one of the two models lacks.
C5_Transplant ==
    /\ (last_op = "train" /\ steps # <<>> /\ steps[Len(steps)] = "transplant") =>
          /\ \A k \in DOMAIN model :
                IF k \in DOMAIN base_model /\ base_model[k].shape = entry.model[k].shape
                THEN model[k] = base_model[k]
                ELSE model[k] = entry.model[k]
          /\ DOMAIN model = DOMAIN entry.model
          /\ (pc = "idle") <=>
                \E k \in DOMAIN model \cap DOMAIN base_model :
                    model[k].shape # base_model[k].shape
    /\ raised = "RuntimeError" =>
          \E k \in DOMAIN model \cap DOMAIN base_model :
              model[k].shape # base_model[k].shape

\* The transplant succeeded from a base model with a key the semi-supervised model
\* lacks, into a model with a key the base model lacks.
C5_Witness ==
    /\ pc = "semi_construct"
    /\ DOMAIN base_model \ DOMAIN model # {}
    /\ DOMAIN model \ DOMAIN base_model # {}
    /\ model["z_encoder"].val = "pretrained"
    /\ model["classifier"].val = "scanvae_init"

\* C6: a hard-mode predict() whose predicted codes all lie in 0 .. L-1 returns, one
\* for one and in order, the label the mapping gives each code (codes 0,1,0,1 over
\* the mapping A,B give A,B,A,B); one with a code outside 0 .. L-1 raises and
\* returns nothing.
C6_HardPredict ==
    /\ (last_op = "predict" /\ ~result.soft) =>
          IF \A j \in DOMAIN result.pred : result.pred[j] \in 0 .. (Len(label_mapping) - 1)
          THEN /\ raised = ""
               /\ Len(result.labels) = Len(result.query)
               /\ \A j \in DOMAIN result.query :
                     result.labels[j] = label_mapping[result.pred[j] + 1]
          ELSE /\ raised = "KeyError"
               /\ result.labels = <<>>
    /\ \A j \in 1 .. 4 :
          /\ <<0, 1, 0, 1>>[j] \in DOMAIN CodeToLabel(<<"A", "B">>)
          /\ CodeToLabel(<<"A", "B">>)[<<0, 1, 0, 1>>[j]] = <<"A", "B", "A", "B">>[j]

\* Codes 0,1 came back for two queried observations and were mapped to two labels.
C6_Witness ==
    /\ last_op = "predict" /\ ~result.soft /\ raised = ""
    /\ result.pred = <<0, 1>>
    /\ result.labels = <<label_mapping[1], label_mapping[2]>>
    /\ label_mapping[1] # label_mapping[2]

\* C7: a soft-mode predict() returns, for any query, a table with one row per
\* queried observation, in query order, each indexed by that observation's name
\* and holding the row the model emitted for it, with the mapping's labels in
\* code order as columns.
C7_SoftTableFollowsQuery ==
    (last_op = "predict" /\ result.soft) =>
        /\ raised = ""
        /\ result.columns = label_mapping
        /\ Len(result.rows) = Len(result.query)
        /\ Len(result.index) = Len(result.query)
        /\ \A j \in DOMAIN result.query :
              /\ result.index[j] = ObsNames[result.query[j]]
              /\ result.rows[j] = result.pred[j]

\* C8: an override is used verbatim, 0 included; without one the unsupervised
\* count is the nearest integer to 8000000 / n_obs capped at 400 (400 for 20000
\* observations, 80 for 100000, always in 0 .. 400) and the semi-supervised count
\* is the nearest integer to a third of the unsupervised count clamped to 2 .. 10
\* (3 for 9).
Nearest(k, p, q) == 2 * (IF k * q >= p THEN k * q - p ELSE p - k * q) <= q

C8_Schedule ==
    sched.done =>
        /\ (sched.raised # "") <=> (sched.ov_u = None /\ sched.n_obs = 0)
        /\ sched.raised = "" =>
              /\ sched.ov_u # None => sched.out_u = sched.ov_u
              /\ sched.ov_u = None =>
                    /\ \E k \in {(RefObs * EpochCap) \div sched.n_obs,
                                 (RefObs * EpochCap) \div sched.n_obs + 1} :
                          /\ Nearest(k, RefObs * EpochCap, sched.n_obs)
                          /\ sched.out_u = IF k <= 400 THEN k ELSE 400
                    /\ sched.out_u \in 0 .. 400
                    /\ sched.n_obs = 20000 => sched.out_u = 400
                    /\ sched.n_obs = 100000 => sched.out_u = 80
              /\ sched.ov_s # None => sched.out_s = sched.ov_s
              /\ sched.ov_s = None =>
                    /\ \E k \in {sched.out_u \div 3, sched.out_u \div 3 + 1} :
                          /\ Nearest(k, sched.out_u, 3)
                          /\ sched.out_s = IF k < 2 THEN 2 ELSE IF k > 10 THEN 10 ELSE k
                    /\ sched.out_s \in 2 .. 10
                    /\ sched.out_u = 9 => sched.out_s = 3

\* The defaults were computed for 100000 observations.
C8_Witness ==
    /\ sched.done /\ sched.n_obs = 100000
    /\ sched.ov_u = None /\ sched.ov_s = None
    /\ sched.out_u = 80 /\ sched.out_s = 10

\* C9: a train() call that raises in phase 1 returns to the caller with the error
\* and both flags false, having tried each step once; and every train() call that
\* begins with the base model not marked trained starts with phase 1: it builds a
\* new unsupervised trainer and trains it for the call's unsupervised epoch count
\* before the transplant and phase 2.
C9_Phase1FailureAndRetry ==
    /\ (last_op = "train" /\ pc = "idle" /\ steps # <<>>
          /\ steps[Len(steps)] \in Elems(Phase1Steps)) =>
          /\ raised = "TrainerError"
          /\ ~is_trained_base /\ ~is_trained
          /\ ~entry.is_trained_base
    /\ (last_op = "train" /\ ~entry.is_trained_base /\ raised # "ZeroDivisionError") =>
          /\ IsPrefix(steps, Phase1Steps \o Phase2Steps)
          /\ (pc # "idle" /\ steps = <<>>) => pc = "unsup_construct"
          /\ pc = "unsup_train" => unsupervised_trainer = NewTrainer("unsupervised")
          /\ pc \in {"transplant", "semi_construct", "views", "semi_train"} =>
                /\ unsupervised_trainer.status = "trained"
                /\ unsupervised_trainer.n_epochs = n_epochs_unsupervised
                /\ is_trained_base

\* A retry is in phase 1 with a new trainer, on a base model an earlier, failed
\* phase 1 had already changed.
C9_Witness ==
    /\ last_op = "train" /\ pc = "unsup_train"
    /\ ~is_trained_base
    /\ base_model["decoder"].val = "unsup_partial"
    /\ unsupervised_trainer.status = "built"

\* C10 as stated: the unsupervised and the semi-supervised trainer are never both
\* held by the instance.
C10_TrainersNeverBothHeld ==
    ~(unsupervised_trainer # NoTrainer /\ trainer # NoTrainer)

\* C10, amended: the steps of a train() call run in the order phase 1, transplant,
\* phase 2; no semi-supervised trainer is held while phase 1 runs, and one is held
\* only once the base model is marked trained; the unsupervised trainer is not
\* retired: on an instance built without a pretrained model it is still held,
\* its training finished, whenever a semi-supervised trainer is.
C10_PhasesInOrder ==
    /\ \/ IsPrefix(steps, Phase1Steps \o Phase2Steps)
       \/ IsPrefix(steps, Phase2Steps)
    /\ pc \in {"unsup_construct", "unsup_train"} => trainer = NoTrainer
    /\ trainer # NoTrainer => is_trained_base
    /\ (trainer # NoTrainer /\ ~pretrained.given) =>
          unsupervised_trainer.status = "trained"

\* Phase 2 is training while the unsupervised trainer of phase 1 is still held.
C10_Witness ==
    /\ pc = "semi_train"
    /\ trainer.status = "views"
    /\ unsupervised_trainer.status = "trained"

====
